---- MODULE Spec2Model ----
(***************************************************************************)
(* Model of the streaming HTML tokenizer of mochi_browser                  *)
(* (src/src/html_tokenizer.rs).                                            *)
(*                                                                         *)
(* An input text is a sequence of characters (Unicode scalar values).      *)
(* Each character is written as a string; Utf8Len gives the number of      *)
(* bytes it occupies in a Rust &str.  The tokenizer's position is used as  *)
(* a character index by peek/advance (chars().nth) and is compared with    *)
(* the byte length by advance/is_eof (input.len()); the model keeps both   *)
(* measures so that the two can differ on non-ASCII input.                 *)
(***************************************************************************)
EXTENDS Integers, Sequences, FiniteSets, TLC

\* ------------------------------------------------------------------------
\* Bounds of the model
\* ------------------------------------------------------------------------

\* the longest input built from fragments, in fragments
MaxFrags == 2

\* the most constructs (tags, text runs) in a well-formed document
MaxConstructs == 2

\* the most attributes written in a generated start tag
MaxAttrs == 2

\* the most sequence views (HtmlTokenizerIter) alive at once
MaxIters == 2

\* the recursion depth at which the thread's stack is exhausted
StackFrames == 3

\* ------------------------------------------------------------------------
\* Characters
\* ------------------------------------------------------------------------

\* Option<char>::None
NoChar == "None"

\* U+00E9, a two-byte character that is not whitespace
EAcute == "U+00E9"

\* U+00A0, a two-byte character with the White_Space property
Nbsp == "U+00A0"

Alphabet == {"<", ">", "/", "!", "-", "=", "\"", "'", " ", "a", "b", "c", "x", EAcute, Nbsp}

\* char::is_whitespace over the alphabet
IsWhitespace(c) == c \in {" ", Nbsp}

\* char::len_utf8 over the alphabet
Utf8Len(c) == IF c \in {EAcute, Nbsp} THEN 2 ELSE 1

RECURSIVE ByteLen(_)
\* str::len: the length of the text in bytes
ByteLen(inp) == IF inp = << >> THEN 0 ELSE Utf8Len(Head(inp)) + ByteLen(Tail(inp))

\* str::chars().count(): the length of the text in characters
CharLen(inp) == Len(inp)

\* ------------------------------------------------------------------------
\* Tokens, errors and return values
\* ------------------------------------------------------------------------

Doctype(content) == [kind |-> "Doctype", content |-> content]

StartTag(name, attributes, self_closing) ==
    [kind |-> "StartTag", name |-> name, attributes |-> attributes,
     self_closing |-> self_closing]

EndTag(name) == [kind |-> "EndTag", name |-> name]

Text(content) == [kind |-> "Text", content |-> content]

Comment(content) == [kind |-> "Comment", content |-> content]

TokenizeError == {"UnexpectedEOF", "InvalidTag", "InvalidAttribute", "MalformedComment"}

\* Result::Ok
Ok(v) == [ok |-> TRUE, value |-> v]

\* Result::Err
Err(e) == [ok |-> FALSE, error |-> e]

\* Option::None returned by next_token / Iterator::next
NoToken == [some |-> FALSE]

\* Option::Some(item)
Some(item) == [some |-> TRUE, item |-> item]

\* the call did not return: next_token and parse_text call each other
\* without end on an unchanged position, until the stack is exhausted
StackOverflow == [some |-> FALSE, overflow |-> TRUE]

\* ------------------------------------------------------------------------
\* Cursor primitives
\* ------------------------------------------------------------------------

\* peek: the character at position + offset, by character index
Peek(inp, position, offset) ==
    IF position + offset < CharLen(inp) THEN inp[position + offset + 1] ELSE NoChar

\* advance: guarded by the byte length, reads by character index
Advance(inp, position) ==
    IF position < ByteLen(inp)
    THEN [c |-> Peek(inp, position, 0), position |-> position + 1]
    ELSE [c |-> NoChar, position |-> position]

RECURSIVE AdvanceN(_, _, _)
AdvanceN(inp, position, n) ==
    IF n = 0 THEN position
    ELSE LET a == Advance(inp, position)
         IN  IF a.c = NoChar THEN a.position ELSE AdvanceN(inp, a.position, n - 1)

IsEof(inp, position) == position >= ByteLen(inp)

RECURSIVE SkipWhitespace(_, _)
SkipWhitespace(inp, position) ==
    LET c == Peek(inp, position, 0)
    IN  IF c # NoChar /\ IsWhitespace(c)
        THEN SkipWhitespace(inp, Advance(inp, position).position)
        ELSE position

\* ------------------------------------------------------------------------
\* Primitive scanners.  Every scanner returns the position it leaves the
\* cursor at together with its result.
\* ------------------------------------------------------------------------

RECURSIVE ParseDoctypeLoopKeepsGt(_, _, _)
\* a doctype loop that stops in front of ">" without consuming it
ParseDoctypeLoopKeepsGt(inp, position, doctype) ==
    LET c == Peek(inp, position, 0)
    IN  IF c = NoChar THEN [position |-> position, result |-> Err("UnexpectedEOF")]
        ELSE IF c = ">"
        THEN [position |-> position, result |-> Ok(Doctype(doctype))]
        ELSE ParseDoctypeLoopKeepsGt(inp, Advance(inp, position).position, Append(doctype, c))

RECURSIVE ParseDoctypeLoop(_, _, _)
ParseDoctypeLoop(inp, position, doctype) ==
    LET c == Peek(inp, position, 0)
    IN  IF c = NoChar THEN [position |-> position, result |-> Err("UnexpectedEOF")]
        ELSE IF c = ">"
        THEN [position |-> Advance(inp, position).position, result |-> Ok(Doctype(doctype))]
        ELSE LET a == Advance(inp, position)
             IN  IF a.c # NoChar
                 THEN ParseDoctypeLoop(inp, a.position, Append(doctype, a.c))
                 ELSE [position |-> a.position, result |-> Err("UnexpectedEOF")]

ParseDoctype(inp, position) == ParseDoctypeLoop(inp, position, << >>)

\* String::ends_with("--")
EndsWithDashes(str) ==
    Len(str) >= 2 /\ str[Len(str)] = "-" /\ str[Len(str) - 1] = "-"

\* String::truncate(len().saturating_sub(2)), used when the string ends with "--"
TruncateDashes(str) == SubSeq(str, 1, Len(str) - 2)

RECURSIVE ParseCommentLoopEof(_, _, _, _)
\* a comment loop that reports the end of the input as UnexpectedEOF
ParseCommentLoopEof(inp, position, comment, prev_dash_count) ==
    LET a == Advance(inp, position)
    IN  IF a.c # NoChar
        THEN IF prev_dash_count >= 2 /\ a.c = ">"
             THEN [position |-> a.position,
                   result |-> Ok(Comment(IF EndsWithDashes(comment)
                                         THEN TruncateDashes(comment)
                                         ELSE comment))]
             ELSE ParseCommentLoopEof(inp, a.position, Append(comment, a.c),
                                      IF a.c = "-" THEN prev_dash_count + 1 ELSE 0)
        ELSE [position |-> a.position, result |-> Err("UnexpectedEOF")]

RECURSIVE ParseCommentLoop(_, _, _, _)
ParseCommentLoop(inp, position, comment, prev_dash_count) ==
    LET a == Advance(inp, position)
    IN  IF a.c # NoChar
        THEN IF prev_dash_count >= 2 /\ a.c = ">"
             THEN [position |-> a.position,
                   result |-> Ok(Comment(IF EndsWithDashes(comment)
                                         THEN TruncateDashes(comment)
                                         ELSE comment))]
             ELSE ParseCommentLoop(inp, a.position, Append(comment, a.c),
                                   IF a.c = "-" THEN prev_dash_count + 1 ELSE 0)
        ELSE [position |-> a.position, result |-> Err("MalformedComment")]

\* a comment scan that counts the two dashes of the opening "<!--"
ParseCommentCountsOpening(inp, position) == ParseCommentLoop(inp, position, << >>, 2)

ParseComment(inp, position) == ParseCommentLoop(inp, position, << >>, 0)

\* a dispatch after "<!" that takes a single "-" for the start of a doctype
ParseSpecialTagDashIsDoctype(inp, position) ==
    IF Peek(inp, position, 0) = "-" /\ Peek(inp, position, 1) = "-"
    THEN ParseComment(inp, AdvanceN(inp, position, 2))
    ELSE ParseDoctype(inp, position)

ParseSpecialTag(inp, position) ==
    IF Peek(inp, position, 0) = "-"
    THEN IF Peek(inp, position, 1) = "-"
         THEN ParseComment(inp, AdvanceN(inp, position, 2))
         ELSE [position |-> position, result |-> Err("MalformedComment")]
    ELSE ParseDoctype(inp, position)

\* Option<String>: None when the accumulated name is empty
NameOption(position, name) ==
    [position |-> position, present |-> name # << >>, name |-> name]

RECURSIVE ParseTagNameLoop(_, _, _)
ParseTagNameLoop(inp, position, name) ==
    LET c == Peek(inp, position, 0)
    IN  IF c = NoChar \/ IsWhitespace(c) \/ c = ">" \/ c = "/"
        THEN NameOption(position, name)
        ELSE LET a == Advance(inp, position)
             IN  IF a.c # NoChar
                 THEN ParseTagNameLoop(inp, a.position, Append(name, a.c))
                 ELSE NameOption(a.position, name)

ParseTagName(inp, position) == ParseTagNameLoop(inp, position, << >>)

RECURSIVE ParseAttributeNameLoopNoEq(_, _, _)
\* an attribute-name loop that does not stop at "="
ParseAttributeNameLoopNoEq(inp, position, name) ==
    LET c == Peek(inp, position, 0)
    IN  IF c = NoChar \/ IsWhitespace(c) \/ c = ">" \/ c = "/"
        THEN NameOption(position, name)
        ELSE ParseAttributeNameLoopNoEq(inp, Advance(inp, position).position, Append(name, c))

RECURSIVE ParseAttributeNameLoop(_, _, _)
ParseAttributeNameLoop(inp, position, name) ==
    LET c == Peek(inp, position, 0)
    IN  IF c = NoChar \/ IsWhitespace(c) \/ c = "=" \/ c = ">" \/ c = "/"
        THEN NameOption(position, name)
        ELSE LET a == Advance(inp, position)
             IN  IF a.c # NoChar
                 THEN ParseAttributeNameLoop(inp, a.position, Append(name, a.c))
                 ELSE NameOption(a.position, name)

ParseAttributeName(inp, position) == ParseAttributeNameLoop(inp, position, << >>)

RECURSIVE QuotedValueLoopAnyQuote(_, _, _, _)
\* a quoted-value loop that ends at either quote character
QuotedValueLoopAnyQuote(inp, position, quote, value) ==
    LET a == Advance(inp, position)
    IN  IF a.c # NoChar
        THEN IF a.c \in {"\"", "'"}
             THEN [position |-> a.position, result |-> Ok(value)]
             ELSE QuotedValueLoopAnyQuote(inp, a.position, quote, Append(value, a.c))
        ELSE [position |-> a.position, result |-> Err("InvalidAttribute")]

RECURSIVE QuotedValueLoop(_, _, _, _)
\* the loop of parse_attribute_value after an opening quote
QuotedValueLoop(inp, position, quote, value) ==
    LET a == Advance(inp, position)
    IN  IF a.c # NoChar
        THEN IF a.c = quote
             THEN [position |-> a.position, result |-> Ok(value)]
             ELSE QuotedValueLoop(inp, a.position, quote, Append(value, a.c))
        ELSE [position |-> a.position, result |-> Err("InvalidAttribute")]

RECURSIVE UnquotedValueLoopStopsAtEq(_, _, _)
\* an unquoted-value loop that also stops in front of "="
UnquotedValueLoopStopsAtEq(inp, position, value) ==
    LET c == Peek(inp, position, 0)
    IN  IF c = NoChar \/ IsWhitespace(c) \/ c = ">" \/ c = "/" \/ c = "="
        THEN [position |-> position, result |-> Ok(value)]
        ELSE UnquotedValueLoopStopsAtEq(inp, Advance(inp, position).position, Append(value, c))

RECURSIVE UnquotedValueLoop(_, _, _)
\* the loop of parse_attribute_value without a quote
UnquotedValueLoop(inp, position, value) ==
    LET c == Peek(inp, position, 0)
    IN  IF c = NoChar \/ IsWhitespace(c) \/ c = ">" \/ c = "/"
        THEN [position |-> position, result |-> Ok(value)]
        ELSE LET a == Advance(inp, position)
             IN  IF a.c # NoChar
                 THEN UnquotedValueLoop(inp, a.position, Append(value, a.c))
                 ELSE [position |-> a.position, result |-> Err("InvalidAttribute")]

ParseAttributeValue(inp, position) ==
    IF Peek(inp, position, 0) \in {"\"", "'"}
    THEN LET a == Advance(inp, position)
         IN  IF a.c = NoChar
             THEN [position |-> a.position, result |-> Err("InvalidAttribute")]
             ELSE QuotedValueLoop(inp, a.position, a.c, << >>)
    ELSE UnquotedValueLoop(inp, position, << >>)

\* parse_attribute once the value has been scanned
AttributeWithValue(name, v) ==
    IF v.result.ok
    THEN [position |-> v.position, present |-> TRUE, result |-> Ok(<<name, v.result.value>>)]
    ELSE [position |-> v.position, present |-> TRUE, result |-> Err(v.result.error)]

\* parse_attribute after the name and the whitespace that follows it
AttributeAfterName(inp, name, p) ==
    IF Peek(inp, p, 0) = "="
    THEN AttributeWithValue(name,
             ParseAttributeValue(inp, SkipWhitespace(inp, Advance(inp, p).position)))
    ELSE [position |-> p, present |-> TRUE, result |-> Ok(<<name, << >> >>)]

\* parse_attribute once the name has been scanned: present = FALSE is None
AttributeNamed(inp, n) ==
    IF ~n.present
    THEN [position |-> n.position, present |-> FALSE]
    ELSE AttributeAfterName(inp, n.name, SkipWhitespace(inp, n.position))

\* Option<Result<(String, String), TokenizeError>>: present = FALSE is None
ParseAttribute(inp, position) == AttributeNamed(inp, ParseAttributeName(inp, position))

RECURSIVE ParseAttributesLoop(_, _, _)
\* the match on parse_attribute() with repeated names replacing earlier entries
AttributesMatchLastWins(inp, r, attributes) ==
    IF ~r.present
    THEN [position |-> r.position, result |-> Ok(attributes), stop |-> "absent"]
    ELSE IF r.result.ok
    THEN ParseAttributesLoop(inp, r.position,
             Append(SelectSeq(attributes, LAMBDA at : at[1] # r.result.value[1]),
                    r.result.value))
    ELSE [position |-> r.position, result |-> Err(r.result.error), stop |-> "error"]

\* the match on parse_attribute() in the loop of parse_attributes
AttributesMatch(inp, r, attributes) ==
    IF ~r.present
    THEN [position |-> r.position, result |-> Ok(attributes), stop |-> "absent"]
    ELSE IF r.result.ok
    THEN ParseAttributesLoop(inp, r.position, Append(attributes, r.result.value))
    ELSE [position |-> r.position, result |-> Err(r.result.error), stop |-> "error"]

\* one round of the loop of parse_attributes after skip_whitespace;
\* stop records which exit of the loop was taken
AttributesAt(inp, p, attributes) ==
    IF Peek(inp, p, 0) = ">"
    THEN [position |-> p, result |-> Ok(attributes), stop |-> ">"]
    ELSE IF Peek(inp, p, 0) = "/"
    THEN [position |-> p, result |-> Ok(attributes), stop |-> "/"]
    ELSE AttributesMatch(inp, ParseAttribute(inp, p), attributes)

ParseAttributesLoop(inp, position, attributes) ==
    AttributesAt(inp, SkipWhitespace(inp, position), attributes)

ParseAttributes(inp, position) == ParseAttributesLoop(inp, position, << >>)

\* ------------------------------------------------------------------------
\* Tag assembly
\* ------------------------------------------------------------------------

\* the end of a start tag that takes "/" as self-closing whatever follows it
StartTagCloseLenient(inp, name, attributes, p) ==
    IF Peek(inp, p, 0) = "/"
    THEN [position |-> AdvanceN(inp, p, 2), result |-> Ok(StartTag(name, attributes, TRUE))]
    ELSE IF Peek(inp, p, 0) = ">"
    THEN [position |-> Advance(inp, p).position,
          result |-> Ok(StartTag(name, attributes, FALSE))]
    ELSE [position |-> p, result |-> Err("InvalidTag")]

\* the position after the "/" of a start tag
AfterSlash(inp, name, attributes, q) ==
    IF Peek(inp, q, 0) = ">"
    THEN [position |-> Advance(inp, q).position,
          result |-> Ok(StartTag(name, attributes, TRUE))]
    ELSE [position |-> q, result |-> Err("InvalidTag")]

\* parse_start_tag after the name, the attributes and the whitespace
StartTagClose(inp, name, attributes, p) ==
    IF Peek(inp, p, 0) = "/"
    THEN AfterSlash(inp, name, attributes, Advance(inp, p).position)
    ELSE IF Peek(inp, p, 0) = ">"
    THEN [position |-> Advance(inp, p).position,
          result |-> Ok(StartTag(name, attributes, FALSE))]
    ELSE [position |-> p, result |-> Err("InvalidTag")]

\* parse_start_tag once parse_attributes has returned
StartTagWithAttributes(inp, name, a) ==
    IF ~a.result.ok
    THEN [position |-> a.position, result |-> Err(a.result.error)]
    ELSE StartTagClose(inp, name, a.result.value, SkipWhitespace(inp, a.position))

\* parse_start_tag once parse_tag_name has returned
StartTagNamed(inp, n) ==
    IF ~n.present
    THEN [position |-> n.position, result |-> Err("InvalidTag")]
    ELSE StartTagWithAttributes(inp, n.name,
             ParseAttributes(inp, SkipWhitespace(inp, n.position)))

ParseStartTag(inp, position) == StartTagNamed(inp, ParseTagName(inp, position))

\* the end of an end tag that checks for ">" without consuming it
EndTagCloseKeepsGt(inp, name, p) ==
    IF Peek(inp, p, 0) = ">"
    THEN [position |-> p, result |-> Ok(EndTag(name))]
    ELSE [position |-> p, result |-> Err("InvalidTag")]

\* parse_end_tag after the name and the whitespace that follows it
EndTagClose(inp, name, p) ==
    IF Peek(inp, p, 0) = ">"
    THEN [position |-> Advance(inp, p).position, result |-> Ok(EndTag(name))]
    ELSE [position |-> p, result |-> Err("InvalidTag")]

\* an end tag that is accepted without a name
EndTagNamedAllowsEmpty(inp, n) ==
    EndTagClose(inp, IF n.present THEN n.name ELSE << >>, SkipWhitespace(inp, n.position))

\* parse_end_tag once parse_tag_name has returned
EndTagNamed(inp, n) ==
    IF ~n.present
    THEN [position |-> n.position, result |-> Err("InvalidTag")]
    ELSE EndTagClose(inp, n.name, SkipWhitespace(inp, n.position))

ParseEndTag(inp, position) == EndTagNamed(inp, ParseTagName(inp, position))

ParseTag(inp, position) ==
    IF Peek(inp, position, 0) = "!"
    THEN ParseSpecialTag(inp, Advance(inp, position).position)
    ELSE IF Peek(inp, position, 0) = "/"
    THEN ParseEndTag(inp, Advance(inp, position).position)
    ELSE ParseStartTag(inp, position)

\* ------------------------------------------------------------------------
\* Text scanning and top-level dispatch
\* ------------------------------------------------------------------------

\* return Some(self.parse_tag())
SomeResult(r) == [position |-> r.position, ret |-> Some(r.result)]

RECURSIVE ParseTextLoopStopsAtGt(_, _, _)
\* a text loop that also stops in front of ">"
ParseTextLoopStopsAtGt(inp, position, text) ==
    LET c == Peek(inp, position, 0)
    IN  IF c = NoChar \/ c = "<" \/ c = ">"
        THEN [position |-> position, text |-> text]
        ELSE ParseTextLoopStopsAtGt(inp, Advance(inp, position).position, Append(text, c))

RECURSIVE ParseTextLoop(_, _, _)
\* the accumulation loop of parse_text
ParseTextLoop(inp, position, text) ==
    LET c == Peek(inp, position, 0)
    IN  IF c = NoChar \/ c = "<"
        THEN [position |-> position, text |-> text]
        ELSE LET a == Advance(inp, position)
             IN  IF a.c # NoChar
                 THEN ParseTextLoop(inp, a.position, Append(text, a.c))
                 ELSE [position |-> a.position, text |-> text]

RECURSIVE NextTokenAt(_, _, _)
\* parse_text that returns whatever it accumulated, the empty text included
ParseTextEmitsEmpty(inp, position, depth) ==
    LET t == ParseTextLoop(inp, position, << >>)
    IN  [position |-> t.position, ret |-> Some(Ok(Text(t.text)))]

\* parse_text, called at the given depth of the next_token/parse_text recursion
ParseText(inp, position, depth) ==
    LET t == ParseTextLoop(inp, position, << >>)
    IN  IF t.text = << >>
        THEN NextTokenAt(inp, t.position, depth + 1)
        ELSE [position |-> t.position, ret |-> Some(Ok(Text(t.text)))]

\* next_token entered at the given recursion depth; a depth beyond
\* StackFrames is a stack overflow, which aborts the process
NextTokenAt(inp, position, depth) ==
    IF depth > StackFrames
    THEN [position |-> position, ret |-> StackOverflow]
    ELSE LET p == SkipWhitespace(inp, position)
         IN  IF IsEof(inp, p)
             THEN [position |-> p, ret |-> NoToken]
             ELSE IF Peek(inp, p, 0) = "<"
             THEN SomeResult(ParseTag(inp, Advance(inp, p).position))
             ELSE ParseText(inp, p, depth)

\* next_token as called from outside
NextToken(inp, position) == NextTokenAt(inp, position, 0)

\* ------------------------------------------------------------------------
\* Construction and the sequence view
\* ------------------------------------------------------------------------

\* HtmlTokenizer::new
New(inp) == [input |-> inp, position |-> 0]

\* an iter that continues from the position of the tokenizer it is taken from
IterAliased(self) == [tokenizer |-> [input |-> self.input, position |-> self.position]]

\* HtmlTokenizer::iter (and IntoIterator::into_iter, which calls it)
Iter(self) == [tokenizer |-> New(self.input)]

\* ------------------------------------------------------------------------
\* Input texts
\* ------------------------------------------------------------------------

RECURSIVE Flatten(_)
\* the concatenation of a sequence of texts
Flatten(parts) == IF parts = << >> THEN << >> ELSE Head(parts) \o Flatten(Tail(parts))

RECURSIVE SeqsUpTo(_, _)
\* the sequences over S of length at most n
SeqsUpTo(S, n) ==
    IF n = 0 THEN {<< >>}
    ELSE LET shorter == SeqsUpTo(S, n - 1)
         IN  shorter \cup {Append(q, e) : q \in shorter, e \in S}

\* the pieces the short inputs are made of
Fragments ==
    { <<"<">>, <<">">>, <<"/">>, <<"!">>, <<"-">>, <<" ">>, <<"a">>,
      <<EAcute>>, <<Nbsp>>, <<"<", "!", "-", "-">> }

\* every text made of at most MaxFrags fragments
FragmentInputs == {Flatten(fs) : fs \in SeqsUpTo(Fragments, MaxFrags)}

\* a construct as written in a document, with the token it denotes
Construct(text, token) == [text |-> text, token |-> token]

\* start tags, end tags and non-empty text runs without "<"
Constructs ==
    { Construct(<<"<", "a", ">">>, StartTag(<<"a">>, << >>, FALSE)),
      Construct(<<"<", "b", ">">>, StartTag(<<"b">>, << >>, FALSE)),
      Construct(<<"<", "/", "a", ">">>, EndTag(<<"a">>)),
      Construct(<<"x">>, Text(<<"x">>)),
      Construct(<<" ">>, Text(<<" ">>)),
      Construct(<<" ", "c", " ">>, Text(<<"c", " ">>)),
      Construct(<<EAcute>>, Text(<<EAcute>>)) }

ConstructSeqs == SeqsUpTo(Constructs, MaxConstructs)

\* <a><b><c>x</c></b></a>, the shape of test_parse_nested_tags
NestedExample ==
    << Construct(<<"<", "a", ">">>, StartTag(<<"a">>, << >>, FALSE)),
       Construct(<<"<", "b", ">">>, StartTag(<<"b">>, << >>, FALSE)),
       Construct(<<"<", "c", ">">>, StartTag(<<"c">>, << >>, FALSE)),
       Construct(<<"x">>, Text(<<"x">>)),
       Construct(<<"<", "/", "c", ">">>, EndTag(<<"c">>)),
       Construct(<<"<", "/", "b", ">">>, EndTag(<<"b">>)),
       Construct(<<"<", "/", "a", ">">>, EndTag(<<"a">>)) >>

Documents == ConstructSeqs \cup {NestedExample}

\* the text of a document
WriteDocument(cs) == Flatten([k \in DOMAIN cs |-> cs[k].text])

DocumentInputs == {WriteDocument(cs) : cs \in Documents}

\* an attribute as written in a tag, with the name and value it denotes
Written(text, name, value) == [text |-> text, name |-> name, value |-> value]

WrittenAttrs ==
    { Written(<<"b">>, <<"b">>, << >>),
      Written(<<"c">>, <<"c">>, << >>),
      Written(<<"b", "=", "\"", "x", "\"">>, <<"b">>, <<"x">>),
      Written(<<"c", "=", "'", "x", "'">>, <<"c">>, <<"x">>),
      Written(<<"b", "=", "x">>, <<"b">>, <<"x">>) }

AttrLists == SeqsUpTo(WrittenAttrs, MaxAttrs)

\* what follows the name and the attributes of a start tag
TagEndings == { <<">">>, <<"/", ">">>, <<"/">>, << >>, <<"=", ">">> }

RECURSIVE WriteAttrs(_)
\* the attributes as text, each preceded by one space
WriteAttrs(al) ==
    IF al = << >> THEN << >> ELSE <<" ">> \o Head(al).text \o WriteAttrs(Tail(al))

\* the text of a start tag named "a"
WriteTag(al, ending) == <<"<", "a">> \o WriteAttrs(al) \o ending

TagInputs == {WriteTag(al, e) : al \in AttrLists, e \in TagEndings}

Inputs == FragmentInputs \cup DocumentInputs \cup TagInputs

\* ------------------------------------------------------------------------
\* The GUI shell: TemplateApp, its fetch threads and its persisted state
\* ------------------------------------------------------------------------

MaxFetches == 2
MaxProcesses == 2

\* struct HttpResponse; strings other than the URL are sequences of pieces
HttpResponse(status, headers, body) == [status |-> status, headers |-> headers, body |-> body]

\* Option::None of the response field
NoResponse == [some |-> FALSE]

\* Option::None of the receiver field
NoReceiver == [some |-> FALSE]

\* TemplateApp::default; label and value are never written by update and are left out
Default ==
    [url_input |-> << >>, response |-> NoResponse, loading |-> FALSE, receiver |-> NoReceiver]

\* what serde writes of a TemplateApp: receiver is #[serde(skip)]
Serialize(a) == [url_input |-> a.url_input, response |-> a.response, loading |-> a.loading]

\* what serde reads back: the skipped receiver takes its default
Deserialize(saved) ==
    [url_input |-> saved.url_input, response |-> saved.response, loading |-> saved.loading,
     receiver |-> NoReceiver]

\* TemplateApp::new: the stored state when there is one, the default otherwise
TemplateAppNew(stored) == IF stored.some THEN Deserialize(stored.item) ELSE Default

RECURSIVE TrimStart(_)
TrimStart(str) ==
    IF str # << >> /\ IsWhitespace(Head(str)) THEN TrimStart(Tail(str)) ELSE str

RECURSIVE TrimEnd(_)
TrimEnd(str) ==
    IF str # << >> /\ IsWhitespace(str[Len(str)])
    THEN TrimEnd(SubSeq(str, 1, Len(str) - 1))
    ELSE str

\* no trim: only the empty text counts as empty
TrimNothing(str) == str

\* str::trim
Trim(str) == TrimEnd(TrimStart(str))

\* what fetch_url(url).map_err(|e| e.to_string()) may return
FetchUrl(url) ==
    { Ok(HttpResponse(200, << <<"content-type", "text/plain">> >>, <<"Hello, World!">>)),
      Ok(HttpResponse(404, << >>, <<"Not Found">>)),
      Err(<<"error sending request">>) }

\* the response update builds from a failed fetch: format!("Error: {}", e)
ErrorResponse(e) == HttpResponse(0, << >>, <<"Error: ">> \o e)

\* the response update builds for an empty URL
EmptyUrlResponse == HttpResponse(0, << >>, <<"Error: URL cannot be empty">>)

\* mpsc::channel() together with the thread spawned to send into it
Channel(url, proc) ==
    [url |-> url, process |-> proc, worker |-> "running", queue |-> << >>, open |-> TRUE]

\* the texts the user may leave in the URL field
Urls == { << >>, <<" ">>, <<Nbsp, " ">>, <<"u">>, <<" ", "u", " ">> }

\* the text field was not edited in this frame
NoEdit == [some |-> FALSE]

\* ------------------------------------------------------------------------
\* State
\* ------------------------------------------------------------------------

VARIABLES
    tokenizer,  \* the HtmlTokenizer under test: [input, position]
    ret,        \* what the last call of tokenizer.next_token returned
    trace,      \* the items tokenizer.next_token returned, with the positions around each call
    iters,      \* the HtmlTokenizerIter values obtained from tokenizer.iter()
    pulled,     \* per sequence view: what next() returned last, and the items it returned
    crashed,    \* the process was aborted by a stack overflow
    app,        \* the TemplateApp: [url_input, response, loading, receiver]
    channels,   \* every channel created by a Fetch click, with its worker thread
    storage,    \* the persisted TemplateApp, if any
    process,    \* the number of the running process, counted from 1
    frame       \* what happened in the call of update that made this state, if one did

\* the variables of the tokenizer
tokvars == <<tokenizer, ret, trace, iters, pulled, crashed>>

\* the variables of the GUI shell
appvars == <<app, channels, storage, process, frame>>

vars == <<tokenizer, ret, trace, iters, pulled, crashed, app, channels, storage, process, frame>>

\* no call of update made this state
NoFrame == [update |-> FALSE]

\* the first process, started without persisted state
AppStarted ==
    /\ app = Default
    /\ channels = << >>
    /\ storage = [some |-> FALSE]
    /\ process = 1
    /\ frame = NoFrame

\* no call made yet
NotCalled == [called |-> FALSE]

\* the record of one call that returned an item
Call(before, after, item) == [before |-> before, after |-> after, item |-> item]

Init ==
    /\ tokenizer \in {New(inp) : inp \in Inputs}
    /\ ret = NotCalled
    /\ trace = << >>
    /\ iters = << >>
    /\ pulled = << >>
    /\ crashed = FALSE
    /\ AppStarted

\* a next_token that starts over from the beginning once it has signalled the end
NextTokenCallRewinds ==
    /\ ~crashed
    /\ UNCHANGED appvars
    /\ \E r \in {NextToken(tokenizer.input,
                           IF ret = NoToken THEN 0 ELSE tokenizer.position)} :
           IF r.ret = StackOverflow
           THEN /\ crashed' = TRUE
                /\ UNCHANGED <<tokenizer, ret, trace, iters, pulled>>
           ELSE /\ tokenizer' = [tokenizer EXCEPT !.position = r.position]
                /\ ret' = r.ret
                /\ trace' = IF r.ret.some
                            THEN Append(trace, Call(tokenizer.position, r.position, r.ret.item))
                            ELSE trace
                /\ UNCHANGED <<iters, pulled, crashed>>

\* tokenizer.next_token()
NextTokenCall ==
    /\ ~crashed
    /\ UNCHANGED appvars
    /\ \E r \in {NextToken(tokenizer.input, tokenizer.position)} :
           IF r.ret = StackOverflow
           THEN /\ crashed' = TRUE
                /\ UNCHANGED <<tokenizer, ret, trace, iters, pulled>>
           ELSE /\ tokenizer' = [tokenizer EXCEPT !.position = r.position]
                /\ ret' = r.ret
                /\ trace' = IF r.ret.some
                            THEN Append(trace, Call(tokenizer.position, r.position, r.ret.item))
                            ELSE trace
                /\ UNCHANGED <<iters, pulled, crashed>>

\* tokenizer.iter() / (&tokenizer).into_iter()
IterCall ==
    /\ ~crashed
    /\ UNCHANGED appvars
    /\ Len(iters) < MaxIters
    /\ iters' = Append(iters, Iter(tokenizer))
    /\ pulled' = Append(pulled, [ret |-> NotCalled, trace |-> << >>])
    /\ UNCHANGED <<tokenizer, ret, trace, crashed>>

\* a sequence view that ends after the first error item
IterNextFused(i) ==
    /\ ~crashed
    /\ UNCHANGED appvars
    /\ \E it \in {iters[i].tokenizer} :
       \E r \in {IF pulled[i].ret # NotCalled /\ pulled[i].ret.some /\ ~pulled[i].ret.item.ok
                 THEN [position |-> it.position, ret |-> NoToken]
                 ELSE NextToken(it.input, it.position)} :
           IF r.ret = StackOverflow
           THEN /\ crashed' = TRUE
                /\ UNCHANGED <<tokenizer, ret, trace, iters, pulled>>
           ELSE /\ iters' = [iters EXCEPT ![i].tokenizer.position = r.position]
                /\ pulled' = [pulled EXCEPT
                                ![i].ret = r.ret,
                                ![i].trace = IF r.ret.some
                                             THEN Append(@, Call(it.position, r.position, r.ret.item))
                                             ELSE @]
                /\ UNCHANGED <<tokenizer, ret, trace, crashed>>

\* Iterator::next on the i-th sequence view
IterNext(i) ==
    /\ ~crashed
    /\ UNCHANGED appvars
    /\ \E it \in {iters[i].tokenizer} :
       \E r \in {NextToken(it.input, it.position)} :
           IF r.ret = StackOverflow
           THEN /\ crashed' = TRUE
                /\ UNCHANGED <<tokenizer, ret, trace, iters, pulled>>
           ELSE /\ iters' = [iters EXCEPT ![i].tokenizer.position = r.position]
                /\ pulled' = [pulled EXCEPT
                                ![i].ret = r.ret,
                                ![i].trace = IF r.ret.some
                                             THEN Append(@, Call(it.position, r.position, r.ret.item))
                                             ELSE @]
                /\ UNCHANGED <<tokenizer, ret, trace, crashed>>

Next ==
    \/ NextTokenCall
    \/ IterCall
    \/ \E i \in DOMAIN iters : IterNext(i)

Spec == Init /\ [][Next]_vars

TypeOK ==
    /\ tokenizer.position \in Nat
    /\ crashed \in BOOLEAN
    /\ Len(iters) = Len(pulled)
    /\ Len(iters) <= MaxIters

\* ------------------------------------------------------------------------
\* Observations shared by the properties
\* ------------------------------------------------------------------------

\* the text every cursor reads
input == tokenizer.input

\* the sequence views, by index
Views == DOMAIN iters

\* the positions of all cursors: the tokenizer's and every view's
Positions == {tokenizer.position} \cup {iters[i].tokenizer.position : i \in Views}

\* the call histories of all cursors
Traces == {trace} \cup {pulled[i].trace : i \in Views}

\* the items of a call history, in order
Items(tr) == [k \in DOMAIN tr |-> tr[k].item]

IsPrefix(s, t) == Len(s) <= Len(t) /\ s = SubSeq(t, 1, Len(s))

\* the text consists of whitespace characters only (the empty text included)
WhitespaceOnly(inp) == \A k \in DOMAIN inp : IsWhitespace(inp[k])

\* ------------------------------------------------------------------------
\* C1  Every call of next_token returns, and every call that returns an
\*     item has moved the position forward by at least one character, for
\*     every input text, non-ASCII text included.
\* ------------------------------------------------------------------------
C1_EveryCallReturnsAndAdvances ==
    /\ ~crashed
    /\ \A tr \in Traces : \A k \in DOMAIN tr : tr[k].after > tr[k].before

\* ------------------------------------------------------------------------
\* C2  For an input of whitespace characters only (Unicode classification,
\*     the empty text included) the first pull signals end-of-input: no
\*     token, no error, and the pull returns.
\* ------------------------------------------------------------------------
C2_WhitespaceOnlyYieldsNothing ==
    WhitespaceOnly(input) =>
        /\ ~crashed
        /\ \A tr \in Traces : tr = << >>
        /\ ret \in {NotCalled, NoToken}
        /\ \A i \in Views : pulled[i].ret \in {NotCalled, NoToken}

\* ------------------------------------------------------------------------
\* C3  Across any sequence of next_token calls the position never decreases
\*     and never exceeds the length of the input, the position being a
\*     character index and the length counted in characters.
\* ------------------------------------------------------------------------
C3_PositionMonotoneAndBounded ==
    /\ \A tr \in Traces : \A k \in DOMAIN tr : tr[k].after >= tr[k].before
    /\ \A p \in Positions : p <= CharLen(input)

\* ------------------------------------------------------------------------
\* C4  is_eof() is true exactly when no character remains at the position,
\*     that is when peek(0) is none, also for non-ASCII input.
\* ------------------------------------------------------------------------
C4_EofIffNoCharacterRemains ==
    \A p \in Positions : IsEof(input, p) <=> Peek(input, p, 0) = NoChar

\* ------------------------------------------------------------------------
\* C5  No Text token is ever emitted with zero-length content: when text
\*     scanning accumulates nothing, top-level dispatch is re-invoked
\*     instead.
\* ------------------------------------------------------------------------
C5_TextNeverEmpty ==
    \A tr \in Traces : \A k \in DOMAIN tr :
        (tr[k].item.ok /\ tr[k].item.value.kind = "Text")
            => tr[k].item.value.content # << >>

\* text scanning started at the position accumulates nothing
TextScanEmptyAt(p) ==
    LET q == SkipWhitespace(input, p)
    IN  /\ ~IsEof(input, q)
        /\ Peek(input, q, 0) # "<"
        /\ ParseTextLoop(input, q, << >>).text = << >>

\* a call reached text scanning that accumulated nothing, after a Text
\* token had been emitted, and re-invoked dispatch
C5_Witness ==
    /\ crashed
    /\ \E p \in Positions : TextScanEmptyAt(p)
    /\ \E tr \in Traces : \E k \in DOMAIN tr :
          tr[k].item.ok /\ tr[k].item.value.kind = "Text"

\* ------------------------------------------------------------------------
\* C6  A sequence view taken from a tokenizer starts at position zero
\*     whatever the tokenizer has consumed; what it yields is what the
\*     tokenizer, constructed fresh over the same input, yields; pulling
\*     from the view leaves the tokenizer's position unchanged and pulling
\*     from the tokenizer leaves every view's position unchanged (no step
\*     moves two cursors).
\* ------------------------------------------------------------------------
C6_ViewStartsAtZeroAndIsIndependent ==
    [][ /\ \A i \in DOMAIN iters' :
              /\ i \notin Views => iters'[i].tokenizer.position = 0
              /\ \/ IsPrefix(pulled'[i].trace, trace')
                 \/ IsPrefix(trace', pulled'[i].trace)
        /\ iters' # iters => tokenizer' = tokenizer
        /\ tokenizer' # tokenizer => iters' = iters
        /\ \A i, j \in Views :
              (i # j /\ iters'[i] # iters[i]) => iters'[j] = iters[j]
      ]_vars

\* the tokenizer has consumed two items; a view has yielded the first of
\* them, from position zero, and stands behind the tokenizer
C6_Witness ==
    /\ Len(trace) >= 2
    /\ \E i \in Views :
          /\ Len(pulled[i].trace) = 1
          /\ pulled[i].trace[1].before = 0
          /\ pulled[i].trace[1] = trace[1]
          /\ iters[i].tokenizer.position < tokenizer.position

\* ------------------------------------------------------------------------
\* C7  Running the sequence adapter twice over the same input produces the
\*     same items in the same order: two views never disagree on an item,
\*     and two views that have both signalled end-of-input have yielded
\*     identical sequences.
\* ------------------------------------------------------------------------
C7_RunsAgree ==
    \A i, j \in Views :
        /\ \/ IsPrefix(Items(pulled[i].trace), Items(pulled[j].trace))
           \/ IsPrefix(Items(pulled[j].trace), Items(pulled[i].trace))
        /\ (pulled[i].ret = NoToken /\ pulled[j].ret = NoToken)
              => Items(pulled[i].trace) = Items(pulled[j].trace)

\* two runs have both ended after yielding the same tokens and errors
C7_Witness ==
    \E i, j \in Views :
        /\ i # j
        /\ pulled[i].ret = NoToken /\ pulled[j].ret = NoToken
        /\ Len(pulled[i].trace) >= 2
        /\ pulled[i].trace = pulled[j].trace
        /\ \E k \in DOMAIN pulled[i].trace : ~pulled[i].trace[k].item.ok
        /\ \E k \in DOMAIN pulled[i].trace : pulled[i].trace[k].item.ok

\* ------------------------------------------------------------------------
\* Documents of well-formed constructs
\* ------------------------------------------------------------------------

IsTextConstruct(c) == c.token.kind = "Text"

\* the ways a text splits into constructs
DecompositionsOf ==
    [inp \in DocumentInputs |-> {cs \in Documents : WriteDocument(cs) = inp}]

\* the tokens a document denotes, one per construct
TokensOf(cs) == [k \in DOMAIN cs |-> Ok(cs[k].token)]

\* every text run has a character that is not whitespace and follows a tag
\* or starts the document
SeparatedText(cs) ==
    \A k \in DOMAIN cs :
        IsTextConstruct(cs[k]) =>
            /\ ~WhitespaceOnly(cs[k].text)
            /\ k > 1 => ~IsTextConstruct(cs[k - 1])

\* the view has consumed every character of the input
ViewAtEnd(i) == iters[i].tokenizer.position >= CharLen(input)

\* ------------------------------------------------------------------------
\* C8  (as claimed) For an input that is a concatenation of k well-formed
\*     constructs (start tags, end tags, non-empty text runs without "<")
\*     the sequence adapter yields exactly k successful tokens, one per
\*     construct, in document order.
\* ------------------------------------------------------------------------
C8_OneTokenPerConstruct ==
    input \in DocumentInputs =>
        \A cs \in DecompositionsOf[input] : \A i \in Views :
            ViewAtEnd(i) => Items(pulled[i].trace) = TokensOf(cs)

\* ------------------------------------------------------------------------
\* C8  (amended) The same, for documents in which every text run has a
\*     non-whitespace character and no text run directly follows another:
\*     the pulls yield the k tokens, one per construct, in document order,
\*     never an error and never anything else, and all k of them once the
\*     input is consumed.
\* ------------------------------------------------------------------------
C8_OneTokenPerSeparatedConstruct ==
    input \in DocumentInputs =>
        \A cs \in DecompositionsOf[input] :
            SeparatedText(cs) =>
                \A i \in Views :
                    /\ IsPrefix(Items(pulled[i].trace), TokensOf(cs))
                    /\ ViewAtEnd(i) => Items(pulled[i].trace) = TokensOf(cs)

\* the nested example has been tokenized to its end: seven tokens
C8_Witness ==
    /\ input = WriteDocument(NestedExample)
    /\ \E i \in Views :
          /\ pulled[i].ret = NoToken
          /\ Len(pulled[i].trace) = 7
          /\ Items(pulled[i].trace) = TokensOf(NestedExample)

\* ------------------------------------------------------------------------
\* C9  Start-tag scanning ends in one of three ways after the name and the
\*     attributes: "/" followed by ">" gives self_closing = TRUE; ">" gives
\*     self_closing = FALSE; anything else (no name, "/" without ">", any
\*     other character, end-of-input) gives InvalidTag and no StartTag.
\* ------------------------------------------------------------------------

\* the call was dispatched to start-tag scanning
StartTagCall(e) ==
    LET s == SkipWhitespace(input, e.before)
    IN  Peek(input, s, 0) = "<" /\ Peek(input, s, 1) \notin {"!", "/"}

IsStartTag(item, self_closing) ==
    item.ok /\ item.value.kind = "StartTag" /\ item.value.self_closing = self_closing

C9_StartTagEndings ==
    \A tr \in Traces : \A k \in DOMAIN tr :
        StartTagCall(tr[k]) =>
            LET e == tr[k]
                s == SkipWhitespace(input, e.before)
                n == ParseTagName(input, s + 1)
                a == ParseAttributes(input, SkipWhitespace(input, n.position))
                p == SkipWhitespace(input, a.position)
            IN  IF ~n.present THEN e.item = Err("InvalidTag")
                ELSE IF ~a.result.ok THEN ~e.item.ok
                ELSE IF Peek(input, p, 0) = "/" /\ Peek(input, p, 1) = ">"
                THEN IsStartTag(e.item, TRUE) /\ e.after = p + 2
                ELSE IF Peek(input, p, 0) = ">"
                THEN IsStartTag(e.item, FALSE) /\ e.after = p + 1
                ELSE e.item = Err("InvalidTag")

\* a tag with a name and an attribute ended in "/" without ">": InvalidTag
C9_Witness ==
    \E tr \in Traces : \E k \in DOMAIN tr :
        /\ StartTagCall(tr[k])
        /\ tr[k].item = Err("InvalidTag")
        /\ input[tr[k].after] = "/"
        /\ \E al \in AttrLists : al # << >> /\ input = WriteTag(al, <<"/">>)

\* ------------------------------------------------------------------------
\* C10 The attributes of an emitted StartTag are the attributes written in
\*     the tag, in encounter order, one entry per written name: duplicates
\*     are kept, a name without "=" has the empty value, and quoted and
\*     unquoted values may be mixed.
\* ------------------------------------------------------------------------

\* the endings that close a start tag
ClosedEndings == { <<">">>, <<"/", ">">> }

ClosedTagInputs == {WriteTag(al, e) : al \in AttrLists, e \in ClosedEndings}

\* the attribute lists a tag text was written from
AttrListsOf ==
    [inp \in ClosedTagInputs |->
        {al \in AttrLists : \E e \in ClosedEndings : WriteTag(al, e) = inp}]

\* the (name, value) pairs of the written attributes
PairsOf(al) == [k \in DOMAIN al |-> <<al[k].name, al[k].value>>]

C10_AttributesAsWritten ==
    input \in ClosedTagInputs =>
        \A al \in AttrListsOf[input] : \A tr \in Traces :
            tr # << >> =>
                /\ tr[1].item.ok
                /\ tr[1].item.value.kind = "StartTag"
                /\ tr[1].item.value.attributes = PairsOf(al)

\* a tag with the same name written twice, once without value: both kept
C10_Witness ==
    /\ input \in ClosedTagInputs
    /\ \E tr \in Traces :
          /\ tr # << >>
          /\ tr[1].item.ok
          /\ Len(tr[1].item.value.attributes) = 2
          /\ tr[1].item.value.attributes[1][1] = tr[1].item.value.attributes[2][1]
          /\ tr[1].item.value.attributes[1][2] = << >>
          /\ tr[1].item.value.attributes[2][2] # << >>


\* ------------------------------------------------------------------------
\* Inputs for the single constructs: attribute values, "<!" constructs and
\* end tags, and the specification that pulls tokens from them
\* ------------------------------------------------------------------------

MaxValueLen == 2
MaxBodyLen == 4

QuoteChars == {"\"", "'"}

\* what an attribute value is written with
ValueChars == {"\"", "'", ">", "/", "<", " ", "=", "x", EAcute}

\* a quoted value as written in <a b=...>, closed by its quote and ">" or cut off
QuotedValue(quote, body, closed) ==
    [text |-> <<"<", "a", " ", "b", "=", quote>> \o body
                  \o (IF closed THEN <<quote, ">">> ELSE << >>),
     quote |-> quote, body |-> body, closed |-> closed]

QuotedValues ==
    {QuotedValue(q, b, c) : q \in QuoteChars, b \in SeqsUpTo(ValueChars, MaxValueLen),
                            c \in BOOLEAN}

\* the quoted values whose body does not hold the quote itself
QuotedWritten == {w \in QuotedValues : \A k \in DOMAIN w.body : w.body[k] # w.quote}

QuotedInputs == {w.text : w \in QuotedWritten}

\* <a b= followed by any short run of value characters, then ">", nothing or " =>"
UnquotedInputs ==
    {<<"<", "a", " ", "b", "=">> \o b \o e : b \in SeqsUpTo(ValueChars, MaxValueLen),
                                           e \in {<<">">>, << >>, <<" ", "=", ">">>}}

\* what follows "<!" and "<!--"
SpecialChars == {"-", ">", "x", " ", EAcute}

SpecialInputs ==
    {opening \o b : opening \in {<<"<", "!">>, <<"<", "!", "-", "-">>},
                    b \in SeqsUpTo(SpecialChars, MaxBodyLen)}

\* what follows "</"
EndTagChars == {"a", " ", ">", "/", EAcute}

EndTagInputs == {<<"<", "/">> \o b : b \in SeqsUpTo(EndTagChars, MaxBodyLen)}

PullInputs ==
    Inputs \cup QuotedInputs \cup UnquotedInputs \cup SpecialInputs \cup EndTagInputs

InitPull ==
    /\ tokenizer \in {New(inp) : inp \in PullInputs}
    /\ ret = NotCalled
    /\ trace = << >>
    /\ iters = << >>
    /\ pulled = << >>
    /\ crashed = FALSE
    /\ AppStarted

NextPull == NextTokenCall

\* one tokenizer, pulled until it signals the end
SpecPull == InitPull /\ [][NextPull]_vars

\* ------------------------------------------------------------------------
\* Reading the input text directly
\* ------------------------------------------------------------------------

WhitespaceChars == {" ", Nbsp}

\* the first index at or after p where the text ends or a character of stops follows
RunEnd(inp, p, stops) ==
    IF p >= Len(inp) THEN p
    ELSE CHOOSE j \in p..Len(inp) :
             /\ j = Len(inp) \/ inp[j + 1] \in stops
             /\ \A i \in (p + 1)..j : inp[i] \notin stops

\* the first index at or after p where the text ends or a non-whitespace character follows
BlankEnd(inp, p) ==
    IF p >= Len(inp) THEN p
    ELSE CHOOSE j \in p..Len(inp) :
             /\ j = Len(inp) \/ inp[j + 1] \notin WhitespaceChars
             /\ \A i \in (p + 1)..j : inp[i] \in WhitespaceChars

\* the characters of the text from index p (exclusive) to index q (inclusive)
Between(inp, p, q) == SubSeq(inp, p + 1, q)

\* the character following index p, or NoChar
CharAt(inp, p) == IF p < Len(inp) THEN inp[p + 1] ELSE NoChar

\* the calls of all cursors that returned an item
Calls == UNION {{tr[k] : k \in DOMAIN tr} : tr \in Traces}

\* where the construct scanned by a call begins: after the skipped whitespace
StartOf(e) == BlankEnd(input, e.before)

\* the call scanned a construct that begins with the given characters
BeginsWith(e, chars) ==
    \A k \in DOMAIN chars : CharAt(input, StartOf(e) + k - 1) = chars[k]

\* ------------------------------------------------------------------------
\* C11 A quoted attribute value is exactly the characters between the
\*     opening quote and the next occurrence of the same quote character,
\*     both excluded: the other quote style, ">", "/", "<", "=" and
\*     whitespace are kept as written.  When the input ends before the
\*     matching quote, next_token returns InvalidAttribute.
\* ------------------------------------------------------------------------
\* the quoted value the input was written from
WrittenAs(inp) ==
    LET quote == inp[6]
        rest == SubSeq(inp, 7, Len(inp))
        closed == \E k \in DOMAIN rest : rest[k] = quote
    IN  QuotedValue(quote, IF closed THEN SubSeq(rest, 1, Len(rest) - 2) ELSE rest, closed)

C11_QuotedValueIsBetweenQuotes ==
    input \in QuotedInputs =>
        \E w \in {WrittenAs(input)} :
            /\ w.text = input
            /\ \A tr \in Traces :
                   tr # << >> =>
                       IF w.closed
                       THEN /\ tr[1].item =
                                   Ok(StartTag(<<"a">>, << <<<<"b">>, w.body>> >>, FALSE))
                            /\ tr[1].after = Len(input)
                       ELSE tr[1].item = Err("InvalidAttribute")

\* a double-quoted value holding a single quote and ">" was emitted as written
C11_Witness ==
    /\ input = QuotedValue("\"", <<"'", ">">>, TRUE).text
    /\ trace # << >>
    /\ trace[1].item.ok
    /\ trace[1].item.value.attributes = << <<<<"b">>, <<"'", ">">>>> >>

\* ------------------------------------------------------------------------
\* C12 After "<!" the construct is chosen by looking at most two characters
\*     ahead: "--" begins a comment body; a single "-" not followed by "-"
\*     returns MalformedComment at once, the position left right after
\*     "<!"; anything else, ">" and the end of input included, is scanned
\*     as a doctype body, whatever it spells.
\* ------------------------------------------------------------------------
C12_SpecialTagLookahead ==
    \A e \in Calls :
        BeginsWith(e, <<"<", "!">>) =>
            LET p == StartOf(e) + 2
            IN  IF CharAt(input, p) = "-" /\ CharAt(input, p + 1) = "-"
                THEN /\ IF e.item.ok THEN e.item.value.kind = "Comment"
                                     ELSE e.item.error = "MalformedComment"
                     /\ e.after >= p + 2
                     /\ e.item = ParseComment(input, p + 2).result
                ELSE IF CharAt(input, p) = "-"
                THEN e.item = Err("MalformedComment") /\ e.after = p
                ELSE /\ IF e.item.ok THEN e.item.value.kind = "Doctype"
                                     ELSE e.item.error = "UnexpectedEOF"
                     /\ e.item = ParseDoctype(input, p).result

\* "<!-" followed by something other than "-": MalformedComment, nothing
\* consumed beyond "<!"
C12_Witness ==
    \E e \in Calls :
        /\ BeginsWith(e, <<"<", "!", "-">>)
        /\ CharAt(input, StartOf(e) + 3) \notin {"-", NoChar}
        /\ e.item = Err("MalformedComment")
        /\ e.after = StartOf(e) + 2

\* ------------------------------------------------------------------------
\* C13 The content of a scanned comment is exactly the characters between
\*     the opening "<!--" and the terminating "-->": the scan ends at the
\*     first ">" directly preceded by at least two "-" of the body (the
\*     dashes of the opening do not count), the final "--" is removed, and
\*     everything else, whitespace and earlier ">" included, is kept.
\* ------------------------------------------------------------------------

\* index q ends a comment body begun after index p: ">" at q after two body dashes
ClosesComment(inp, p, q) ==
    /\ q >= p + 3
    /\ inp[q] = ">"
    /\ inp[q - 1] = "-"
    /\ inp[q - 2] = "-"

C13_CommentContentIsBody ==
    \A e \in Calls :
        BeginsWith(e, <<"<", "!", "-", "-">>) =>
            LET p == StartOf(e) + 4
                closers == {q \in (p + 1)..Len(input) : ClosesComment(input, p, q)}
            IN  IF closers = {}
                THEN ~e.item.ok
                ELSE \E q \in closers :
                         /\ \A r \in closers : q <= r
                         /\ e.item = Ok(Comment(Between(input, p, q - 3)))
                         /\ e.after = q

\* <!-->-->: the ">" after the opening does not end the comment and is kept
C13_Witness ==
    \E e \in Calls :
        /\ BeginsWith(e, <<"<", "!", "-", "-">>)
        /\ e.item.ok
        /\ e.item.value.kind = "Comment"
        /\ e.item.value.content = <<">">>
        /\ e.after = Len(input)

\* ------------------------------------------------------------------------
\* C14 The content of a doctype token is exactly the characters after "<!"
\*     up to, and not including, the first ">", verbatim and possibly
\*     empty; the ">" is consumed, so that the next token starts right
\*     after it.
\* ------------------------------------------------------------------------
C14_DoctypeContentUpToGt ==
    /\ \A e \in Calls :
           (BeginsWith(e, <<"<", "!">>) /\ CharAt(input, StartOf(e) + 2) # "-") =>
               LET p == StartOf(e) + 2
                   q == RunEnd(input, p, {">"})
               IN  IF q < Len(input)
                   THEN e.item = Ok(Doctype(Between(input, p, q))) /\ e.after = q + 1
                   ELSE ~e.item.ok
    /\ \A e \in Calls :
           (e.item.ok /\ e.item.value.kind = "Doctype") =>
               /\ BeginsWith(e, <<"<", "!">>)
               /\ \A k \in DOMAIN e.item.value.content : e.item.value.content[k] # ">"
               /\ input[e.after] = ">"
    /\ \A tr \in Traces : \A k \in DOMAIN tr :
           (k > 1 /\ tr[k - 1].item.ok /\ tr[k - 1].item.value.kind = "Doctype") =>
               tr[k].before = tr[k - 1].after

\* <!>x: an empty doctype, and the text after it starts right after ">"
C14_Witness ==
    \E tr \in Traces :
        /\ Len(tr) >= 2
        /\ tr[1].item = Ok(Doctype(<< >>))
        /\ tr[1].after = 3
        /\ tr[2].before = 3
        /\ tr[2].item.ok
        /\ tr[2].item.value.kind = "Text"

\* ------------------------------------------------------------------------
\* C15 The error for a construct cut off by the end of the input is fixed
\*     by the construct: UnexpectedEOF only from a doctype body, InvalidTag
\*     from a start or end tag without its closing ">", InvalidAttribute
\*     from a quoted attribute value without its closing quote, and
\*     MalformedComment from a comment body without "-->".
\* ------------------------------------------------------------------------

\* no ">" follows index p
NoGtAfter(inp, p) == \A k \in (p + 1)..Len(inp) : inp[k] # ">"

\* no quote character follows index p
NoQuoteAfter(inp, p) == \A k \in (p + 1)..Len(inp) : inp[k] \notin QuoteChars

\* the call scanned a start tag or an end tag
TagCall(e) == BeginsWith(e, <<"<">>) /\ CharAt(input, StartOf(e) + 1) # "!"

\* the call scanned a doctype body
DoctypeCall(e) == BeginsWith(e, <<"<", "!">>) /\ CharAt(input, StartOf(e) + 2) # "-"

\* the quoted values written without their closing quote
CutOffQuotedInputs == {w.text : w \in {v \in QuotedWritten : ~v.closed}}

C15_ErrorKindAtEndOfInput ==
    \A e \in Calls :
        /\ (DoctypeCall(e) /\ NoGtAfter(input, StartOf(e))) => e.item = Err("UnexpectedEOF")
        /\ e.item = Err("UnexpectedEOF") =>
               DoctypeCall(e) /\ NoGtAfter(input, StartOf(e)) /\ e.after >= Len(input)
        /\ (/\ BeginsWith(e, <<"<", "!", "-", "-">>)
            /\ \A q \in (StartOf(e) + 5)..Len(input) : ~ClosesComment(input, StartOf(e) + 4, q)) =>
               e.item = Err("MalformedComment") /\ e.after >= Len(input)
        /\ (BeginsWith(e, <<"<", "/">>) /\ NoGtAfter(input, StartOf(e))) =>
               e.item = Err("InvalidTag")
        /\ (TagCall(e) /\ NoGtAfter(input, StartOf(e))) =>
               /\ ~e.item.ok
               /\ e.item.error \in {"InvalidTag", "InvalidAttribute"}
               /\ NoQuoteAfter(input, StartOf(e)) => e.item.error = "InvalidTag"
               /\ e.item.error = "InvalidAttribute" => e.after >= Len(input)
        /\ input \in CutOffQuotedInputs => e.item = Err("InvalidAttribute")

\* a comment body that runs to the end of the input without "-->"
C15_Witness ==
    \E e \in Calls :
        /\ BeginsWith(e, <<"<", "!", "-", "-">>)
        /\ Len(input) > StartOf(e) + 4
        /\ e.item = Err("MalformedComment")
        /\ e.after >= Len(input)

\* ------------------------------------------------------------------------
\* C16 End-tag scanning accepts only "</", a non-empty name, optional
\*     whitespace and ">", and yields EndTag with that name; in every other
\*     case (no name, anything but whitespace between the name and ">",
\*     the end of the input) it returns InvalidTag.  Attributes are never
\*     parsed in an end tag.
\* ------------------------------------------------------------------------

\* the characters that end a tag name
NameStops == WhitespaceChars \cup {">", "/"}

C16_EndTagShape ==
    /\ \A e \in Calls :
           BeginsWith(e, <<"<", "/">>) =>
               LET p == StartOf(e) + 2
                   n == RunEnd(input, p, NameStops)
                   b == BlankEnd(input, n)
               IN  IF n > p /\ CharAt(input, b) = ">"
                   THEN e.item = Ok(EndTag(Between(input, p, n))) /\ e.after = b + 1
                   ELSE e.item = Err("InvalidTag")
    /\ \A e \in Calls :
           (e.item.ok /\ e.item.value.kind = "EndTag") => BeginsWith(e, <<"<", "/">>)

\* </a a>: a second word after the name is not taken for an attribute
C16_Witness ==
    \E e \in Calls :
        /\ BeginsWith(e, <<"<", "/", "a", " ", "a", ">">>)
        /\ e.item = Err("InvalidTag")

\* ------------------------------------------------------------------------
\* C17 An error item does not end the sequence: after a TokenizeError the
\*     next pull starts at the position where consumption stopped and,
\*     while a non-whitespace character remains, yields a further item;
\*     the end of the sequence is signalled only by a pull that left the
\*     position at the end of the input.
\* ------------------------------------------------------------------------

\* every cursor with what its last call returned and its call history
Cursors ==
    {[position |-> tokenizer.position, ret |-> ret, trace |-> trace]}
        \cup {[position |-> iters[i].tokenizer.position,
               ret |-> pulled[i].ret, trace |-> pulled[i].trace] : i \in Views}

\* the last call of the cursor returned an error item
ReturnedError(c) == c.ret # NotCalled /\ c.ret.some /\ ~c.ret.item.ok

C17_ErrorDoesNotEndSequence ==
    \A c \in Cursors :
        /\ \A k \in DOMAIN c.trace :
               (k > 1 /\ ~c.trace[k - 1].item.ok) => c.trace[k].before = c.trace[k - 1].after
        /\ c.ret = NoToken => c.position >= Len(input)
        /\ (ReturnedError(c) /\ CharAt(input, BlankEnd(input, c.position)) # NoChar) =>
               NextToken(input, c.position).ret.some

\* <>: InvalidTag, then the text ">", then the end of the sequence
C17_Witness ==
    \E i \in Views :
        /\ input = <<"<", ">">>
        /\ pulled[i].trace = << Call(0, 1, Err("InvalidTag")), Call(1, 2, Ok(Text(<<">">>))) >>
        /\ pulled[i].ret = NoToken

\* ------------------------------------------------------------------------
\* C18 The content of a Text token is exactly the characters from where
\*     whitespace skipping stopped up to, and not including, the next "<"
\*     or the end of the input: it holds no "<", it never begins with
\*     whitespace (whitespace alone produces no token), and its trailing
\*     whitespace is kept.
\* ------------------------------------------------------------------------
C18_TextContentUpToLt ==
    \A e \in Calls :
        /\ CharAt(input, StartOf(e)) # "<" =>
               LET s == StartOf(e)
                   q == RunEnd(input, s, {"<"})
               IN  /\ e.item = Ok(Text(Between(input, s, q)))
                   /\ e.after = q
        /\ (e.item.ok /\ e.item.value.kind = "Text") =>
               LET content == e.item.value.content
               IN  /\ CharAt(input, StartOf(e)) # "<"
                   /\ content # << >>
                   /\ content[1] \notin WhitespaceChars
                   /\ \A k \in DOMAIN content : content[k] # "<"

\* " c " in front of a tag: the leading space is skipped, the trailing one kept
C18_Witness ==
    \E e \in Calls :
        /\ StartOf(e) > e.before
        /\ e.item = Ok(Text(<<"c", " ">>))
        /\ CharAt(input, e.after) = "<"

\* ------------------------------------------------------------------------
\* C19 In attribute-list scanning the absent-attribute branch is never
\*     taken: whenever, after skipping whitespace, the next character is
\*     neither ">" nor "/", the attribute attempt reads a non-empty name,
\*     so the loop only stops at ">" or "/" or by an attribute error.
\*
\*     As the code has it: the absent-attribute branch is taken exactly
\*     when, after skipping whitespace, "=" follows or no character
\*     remains; for every other character that is neither ">" nor "/" the
\*     attempt reads a non-empty name.  The loop stops at ">", "/", "=",
\*     the end of the input, or by an attribute error.
\* ------------------------------------------------------------------------

\* the call scanned a start tag and read its name
NamedStartTagCall(e) ==
    /\ BeginsWith(e, <<"<">>)
    /\ CharAt(input, StartOf(e) + 1) \notin {"!", "/"}
    /\ RunEnd(input, StartOf(e) + 1, NameStops) > StartOf(e) + 1

\* what parse_attributes returned within the call
AttributesOf(e) ==
    ParseAttributes(input,
        SkipWhitespace(input, ParseTagName(input, StartOf(e) + 1).position))

\* the characters in front of which no attribute name can be read
NoNameAt == NameStops \cup {"=", NoChar}

C19_AbsentBranchNeverTaken ==
    \A e \in Calls : NamedStartTagCall(e) => AttributesOf(e).stop # "absent"

C19_AbsentBranchAtEqualsOrEnd ==
    /\ \A e \in Calls :
           NamedStartTagCall(e) =>
               \E a \in {AttributesOf(e)} :
                   /\ a.stop = "absent" <=>
                          (a.result.ok /\ CharAt(input, a.position) \in {"=", NoChar})
                   /\ a.stop \in {">", "/"} <=>
                          (a.result.ok /\ CharAt(input, a.position) \in {">", "/"})
                   /\ a.stop \in {">", "/"} => CharAt(input, a.position) = a.stop
                   /\ a.stop = "error" <=> ~a.result.ok
                   /\ a.result.ok =>
                          \A k \in DOMAIN a.result.value :
                              /\ a.result.value[k][1] # << >>
                              /\ \A j \in DOMAIN a.result.value[k][1] :
                                     a.result.value[k][1][j] \notin NoNameAt
    /\ \A p \in 0..Len(input) :
           \E q \in {BlankEnd(input, p)} :
               ParseAttribute(input, q).present <=> CharAt(input, q) \notin NoNameAt

\* <a b=… =>: after the attribute the list scan meets "=", reads no name and
\* stops without error; the tag is then refused
C19_Witness ==
    \E e \in Calls :
        /\ NamedStartTagCall(e)
        /\ AttributesOf(e).stop = "absent"
        /\ AttributesOf(e).result.ok
        /\ AttributesOf(e).result.value # << >>
        /\ CharAt(input, AttributesOf(e).position) = "="
        /\ e.item = Err("InvalidTag")

\* ------------------------------------------------------------------------
\* C20 Unquoted attribute-value scanning never returns an error: from any
\*     position it returns the possibly empty run of characters up to the
\*     first whitespace, ">", "/" or the end of the input, a run that may
\*     hold "=", quote characters and "<"; the InvalidAttribute exit of the
\*     unquoted path is never taken.
\* ------------------------------------------------------------------------

\* the characters that end an unquoted value
ValueStops == WhitespaceChars \cup {">", "/"}

C20_UnquotedValueNeverFails ==
    /\ \A p \in 0..ByteLen(input) :
           \E q \in {RunEnd(input, p, ValueStops)} :
               /\ UnquotedValueLoop(input, p, << >>) =
                      [position |-> q, result |-> Ok(Between(input, p, q))]
               /\ CharAt(input, p) \notin QuoteChars =>
                      ParseAttributeValue(input, p) =
                          [position |-> q, result |-> Ok(Between(input, p, q))]
    /\ \A e \in Calls :
           (NamedStartTagCall(e) /\ NoQuoteAfter(input, StartOf(e))) =>
               (~e.item.ok => e.item.error = "InvalidTag")

\* <a b=="> : the unquoted value holds "=" and a quote character
C20_Witness ==
    /\ input = <<"<", "a", " ", "b", "=", "=", "\"", ">">>
    /\ trace # << >>
    /\ trace[1].item = Ok(StartTag(<<"a">>, << <<<<"b">>, <<"=", "\"">>>> >>, FALSE))

\* ------------------------------------------------------------------------
\* C21 End-of-input is stable: once a call of next_token on the tokenizer,
\*     or of next on a sequence view, has returned "no token", every later
\*     call on the same cursor returns "no token" as well, leaves its
\*     position unchanged and adds no item; no later call fails to return.
\* ------------------------------------------------------------------------
C21_EndOfInputIsStable ==
    [][ /\ ret = NoToken =>
               /\ ret' = NoToken
               /\ tokenizer' = tokenizer
               /\ trace' = trace
        /\ \A i \in Views :
               pulled[i].ret = NoToken =>
                   /\ pulled'[i] = pulled[i]
                   /\ iters'[i] = iters[i]
        /\ (ret = NoToken \/ \E i \in Views : pulled[i].ret = NoToken) => ~crashed'
      ]_vars

\* both the tokenizer and a view have signalled the end after yielding items
C21_Witness ==
    /\ ret = NoToken
    /\ trace # << >>
    /\ \E i \in Views : pulled[i].ret = NoToken /\ pulled[i].trace = trace

\* ------------------------------------------------------------------------
\* The GUI shell: update, the fetch threads, save and restart
\* ------------------------------------------------------------------------

\* the state update works on: the TemplateApp and the channels
Shell(a, chans) == [app |-> a, channels |-> chans, received |-> FALSE]

\* the receiver poll at the top of update: try_recv on the receiver, if any
Poll(s) ==
    IF s.app.receiver.some /\ s.channels[s.app.receiver.item].queue # << >>
    THEN [app |-> [s.app EXCEPT
                      !.loading = FALSE,
                      !.receiver = NoReceiver,
                      !.response =
                          IF Head(s.channels[s.app.receiver.item].queue).ok
                          THEN Some(Head(s.channels[s.app.receiver.item].queue).value)
                          ELSE Some(ErrorResponse(
                                   Head(s.channels[s.app.receiver.item].queue).error))],
          channels |-> [s.channels EXCEPT ![s.app.receiver.item].queue = Tail(@),
                                          ![s.app.receiver.item].open = FALSE],
          received |-> TRUE]
    ELSE s

\* text_edit_singleline bound to url_input
TextEdit(s, typed) ==
    IF typed.some THEN [s EXCEPT !.app.url_input = typed.item] ELSE s

\* a Fetch click that is not held back while loading
FetchClickWhileLoading(s, clicked, proc) ==
    IF ~clicked THEN s
    ELSE IF Trim(s.app.url_input) = << >>
    THEN [s EXCEPT !.app.response = Some(EmptyUrlResponse)]
    ELSE [s EXCEPT !.app.response = NoResponse,
                   !.app.loading = TRUE,
                   !.app.receiver = Some(Len(s.channels) + 1),
                   !.channels = Append(@, Channel(s.app.url_input, proc))]

\* the body of `if ui.button("Fetch").clicked() && !self.loading`, native build
FetchClick(s, clicked, proc) ==
    IF ~clicked \/ s.app.loading THEN s
    ELSE IF Trim(s.app.url_input) = << >>
    THEN [s EXCEPT !.app.response = Some(EmptyUrlResponse)]
    ELSE [s EXCEPT !.app.response = NoResponse,
                   !.app.loading = TRUE,
                   !.app.receiver = Some(Len(s.channels) + 1),
                   !.channels = Append(@, Channel(s.app.url_input, proc))]

\* eframe::App::update, with what the user did in this frame; the frame
\* records whether a result was received and the value of loading the
\* Fetch button was evaluated with
Update(typed, clicked) ==
    /\ \E q \in {TextEdit(Poll(Shell(app, channels)), typed)} :
       \E s \in {FetchClick(q, clicked, process)} :
           /\ Len(s.channels) <= MaxFetches
           /\ app' = s.app
           /\ channels' = s.channels
           /\ frame' = [update |-> TRUE, clicked |-> clicked, received |-> q.received,
                        loading |-> q.app.loading]
    /\ UNCHANGED <<storage, process>>
    /\ UNCHANGED tokvars

\* the spawned thread: fetch_url, then sender.send(result).ok()
WorkerSend(c) ==
    /\ channels[c].worker = "running"
    /\ \E result \in FetchUrl(channels[c].url) :
           channels' = [channels EXCEPT
                           ![c].worker = "done",
                           ![c].queue = IF channels[c].open THEN Append(@, result) ELSE @]
    /\ frame' = NoFrame
    /\ UNCHANGED <<app, storage, process>>
    /\ UNCHANGED tokvars

\* eframe::App::save, called by the framework while the app runs
Save ==
    /\ storage' = Some(Serialize(app))
    /\ frame' = NoFrame
    /\ UNCHANGED <<app, channels, process>>
    /\ UNCHANGED tokvars

\* the channels after the process has ended: its threads and receivers are gone
ProcessEnded(chans) ==
    [c \in DOMAIN chans |->
        [chans[c] EXCEPT !.worker = IF @ = "running" THEN "killed" ELSE @,
                         !.open = FALSE]]

\* the app is closed, which saves it, and started again: TemplateApp::new
Restart ==
    /\ process < MaxProcesses
    /\ storage' = Some(Serialize(app))
    /\ app' = TemplateAppNew(Some(Serialize(app)))
    /\ channels' = ProcessEnded(channels)
    /\ process' = process + 1
    /\ frame' = NoFrame
    /\ UNCHANGED tokvars

InitGui ==
    /\ tokenizer = New(<< >>)
    /\ ret = NotCalled
    /\ trace = << >>
    /\ iters = << >>
    /\ pulled = << >>
    /\ crashed = FALSE
    /\ AppStarted

NextGui ==
    \/ \E typed \in {NoEdit} \cup {Some(u) : u \in Urls} : \E clicked \in BOOLEAN :
           Update(typed, clicked)
    \/ \E c \in DOMAIN channels : WorkerSend(c)
    \/ Save
    \/ Restart

SpecGui == InitGui /\ [][NextGui]_vars

\* the worker threads run and update keeps being called
SpecGuiFair ==
    /\ SpecGui
    /\ WF_vars(\E c \in DOMAIN channels : WorkerSend(c))
    /\ WF_vars(Update(NoEdit, FALSE))

\* the channels whose result has not been delivered to update yet
InFlight ==
    {c \in DOMAIN channels : channels[c].worker = "running" \/ channels[c].queue # << >>}

TypeOKGui ==
    /\ app.loading \in BOOLEAN
    /\ app.url_input \in Urls
    /\ process \in 1..MaxProcesses
    /\ Len(channels) <= MaxFetches
    /\ app.receiver.some => app.receiver.item \in DOMAIN channels

\* ------------------------------------------------------------------------
\* C22 In every reachable state of TemplateApp on a native build, a state
\*     restored from persisted storage at startup included, loading is true
\*     exactly when a receiver for a fetch in flight is present; loading
\*     without a receiver is unreachable.
\* ------------------------------------------------------------------------
C22_LoadingIffReceiver == app.loading <=> app.receiver.some

\* ------------------------------------------------------------------------
\* C23 Every fetch that is started eventually completes from the UI's point
\*     of view: when its worker thread has run and sent its result and
\*     update keeps being called, loading eventually becomes false with the
\*     receiver cleared and a response set.
\* ------------------------------------------------------------------------

\* the worker of the fetch the app is loading has sent its result
ResultSent ==
    /\ app.loading
    /\ app.receiver.some
    /\ channels[app.receiver.item].queue # << >>

\* the app shows a result and no spinner
FetchCompleted == ~app.loading /\ ~app.receiver.some /\ app.response.some

C23_FetchEventuallyCompletes == ResultSent ~> FetchCompleted

\* ------------------------------------------------------------------------
\* C24 At most one fetch is in flight at any time: a Fetch click while
\*     loading is true starts no worker thread, creates no channel and
\*     leaves response, loading and receiver as they are, so that the
\*     receiver update polls is always that of the most recently started
\*     fetch.
\* ------------------------------------------------------------------------

\* the fetches of the running process whose result update has not received yet
InFlightNow == {c \in InFlight : channels[c].process = process}

C24_AtMostOneFetchInFlight ==
    /\ [](/\ Cardinality(InFlightNow) <= 1
          /\ app.receiver.some =>
                 /\ app.receiver.item = Len(channels)
                 /\ channels[app.receiver.item].process = process
                 /\ InFlightNow \subseteq {app.receiver.item})
    /\ [][ (frame'.update /\ frame'.clicked /\ frame'.loading) =>
               /\ channels' = channels
               /\ app'.response = app.response
               /\ app'.loading = app.loading
               /\ app'.receiver = app.receiver
         ]_vars

\* Fetch was clicked while a fetch was in flight, and nothing was started
C24_Witness ==
    /\ frame.update
    /\ frame.clicked
    /\ frame.loading
    /\ Trim(app.url_input) # << >>
    /\ app.receiver.some
    /\ InFlightNow = {app.receiver.item}
    /\ Len(channels) = 1

\* ------------------------------------------------------------------------
\* C25 A Fetch click with an empty or whitespace-only URL, while not
\*     loading, starts no fetch: response becomes the status-0 response
\*     with body "Error: URL cannot be empty", and loading and receiver stay
\*     as they were when the button was evaluated.
\* ------------------------------------------------------------------------

\* the text consists of whitespace only, read off the text itself
Blank(str) == \A k \in DOMAIN str : str[k] \in WhitespaceChars

C25_EmptyUrlStartsNoFetch ==
    [][ (frame'.update /\ frame'.clicked /\ ~frame'.loading /\ Blank(app'.url_input)) =>
            /\ app'.response =
                   Some([status |-> 0, headers |-> << >>,
                         body |-> <<"Error: URL cannot be empty">>])
            /\ ~app'.loading
            /\ app'.receiver = IF frame'.received THEN NoReceiver ELSE app.receiver
            /\ Len(channels') = Len(channels)
            /\ \A c \in DOMAIN channels : channels'[c].worker = channels[c].worker
      ]_vars

\* Fetch was clicked on a URL of two whitespace characters: the error is shown
C25_Witness ==
    /\ frame.update
    /\ frame.clicked
    /\ ~frame.loading
    /\ app.url_input = <<Nbsp, " ">>
    /\ app.response = Some(EmptyUrlResponse)
    /\ ~app.loading
    /\ ~app.receiver.some

====
